---- MODULE Spec2Model ----
(* Model of src/model_training/train_model.py: the training pipeline run by   *)
(* main(), the tracker (MLflow) state it acts on, and the pure computations   *)
(* prepare_data and the final-epoch metrics mapping.                          *)
EXTENDS Integers, Sequences, FiniteSets, TLC

\* ------------------------------------------------------------------ bounds
\* Number of non-overlapping invocations of main() against one tracker.
MaxInvocations == 2
\* Largest number of rows of a training table.
MaxRows == 3
\* Largest configured epoch count (must exceed Patience for early stopping).
MaxEpochs == 12

\* ------------------------------------------------------- program constants
\* EarlyStopping(monitor="val_loss", patience=10, restore_best_weights=True)
Patience == 10

\* Python's None, as the value of an unset environment variable or argument.
NoneStr == "<None>"
\* The experiment selected by mlflow.set_experiment("ml_classification").
MlClassification == "ml_classification"
\* Experiment ids of the tracker: "0" is the tracker's default experiment,
\* "1" the id the tracker gave to ml_classification.
DefaultExperimentId == "0"
MlClassificationId == "1"

ModelPath == "models/model.keras"
EncoderPath == "artifacts/[target]_one_hot_encoder.joblib"
ImputerPath == "artifacts/[features]_mean_imputer.joblib"
ScalerPath == "artifacts/[features]_scaler.joblib"
MetricsPath == "metrics/training.json"
\* Where keras autologging puts the in-memory model it logs at the end of fit.
AutologModelArtifact == "model"

EmptyMap == [k \in {} |-> 0]

Range(s) == {s[i] : i \in 1..Len(s)}

\* ---------------------------------------------------------- hyperparameters
ParamKeys ==
    {"hidden_layer_1_neurons", "hidden_layer_2_neurons", "dropout_rate",
     "learning_rate", "batch_size", "epochs", "random_seed"}

\* The 'train' mapping of a well-formed params.yaml, with `e` epochs.
TrainParams(e) ==
    [k \in ParamKeys |->
        CASE k = "hidden_layer_1_neurons" -> 8
          [] k = "hidden_layer_2_neurons" -> 4
          [] k = "dropout_rate" -> 2
          [] k = "learning_rate" -> 1
          [] k = "batch_size" -> 3
          [] k = "epochs" -> e
          [] k = "random_seed" -> 42]

\* dict without one key
Without(m, key) == [k \in DOMAIN m \ {key} |-> m[k]]

\* Contents of params.yaml: documents with and without the 'train' key,
\* 'train' mappings lacking one hyperparameter, and every epoch count that
\* matters (none, fewer than Patience, more than Patience).
ParamDocs ==
    {[k \in {"train"} |-> TrainParams(e)] : e \in {0, 1, 2, MaxEpochs}}
    \cup
    {[k \in {"train"} |-> Without(TrainParams(2), key)] : key \in ParamKeys}
    \cup
    {[k \in {"prepare"} |-> EmptyMap]}

DefaultDoc == [k \in {"train"} |-> TrainParams(1)]

\* load_params: params["train"] of the parsed document (KeyError when absent).
LoadParamsRaises(doc) == "train" \notin DOMAIN doc
load_params(doc) == doc["train"]

\* params.pop("random_seed") on the dict object shared with the caller.
PopRandomSeed(m) == Without(m, "random_seed")

\* Keys create_model subscripts (KeyError when one is absent).
CreateModelKeys ==
    {"hidden_layer_1_neurons", "dropout_rate", "hidden_layer_2_neurons",
     "learning_rate"}
FitKeys == {"epochs", "batch_size"}

create_model(input_shape, num_classes, p) ==
    [input_shape |-> input_shape,
     num_classes |-> num_classes,
     hidden |-> <<p["hidden_layer_1_neurons"], p["hidden_layer_2_neurons"]>>,
     dropout |-> p["dropout_rate"],
     learning_rate |-> p["learning_rate"]]

\* ------------------------------------------------------------- prepare_data
Classes == 1..3

\* A training table: its column names in order and its rows.
HasColumn(t, c) == c \in Range(t.columns)

\* train_data.drop("target", axis=1): the columns other than 'target', in order.
DropTarget(cols) == SelectSeq(cols, LAMBDA c : c # "target")

\* The distinct values of a column, ascending (OneHotEncoder.categories_).
RECURSIVE SortedSeq(_)
SortedSeq(S) ==
    IF S = {} THEN <<>>
    ELSE LET m == CHOOSE x \in S : \A y \in S : x <= y
         IN <<m>> \o SortedSeq(S \ {m})

\* An encoder that takes every sample for a category of its own.
FitEncoderNoDedup(y) == [categories |-> y]
\* encoder.fit(y): learns the categories of the single target column.
FitEncoder(y) == [categories |-> SortedSeq(Range(y))]

\* encoder.transform(y): one row per sample, one column per category.
Transform(enc, y) ==
    [i \in 1..Len(y) |->
        [j \in 1..Len(enc.categories) |->
            IF enc.categories[j] = y[i] THEN 1 ELSE 0]]

\* prepare_data raises KeyError without a 'target' column, and the encoder
\* raises ValueError on a table with no rows.
PrepareDataRaises(t) == ~HasColumn(t, "target") \/ Len(t.rows) = 0

prepare_data(t) ==
    LET feats == DropTarget(t.columns)
        y == [i \in 1..Len(t.rows) |-> t.rows[i]["target"]]
        enc == FitEncoder(y)
    IN [X_train |-> [columns |-> feats,
                     rows |-> [i \in 1..Len(t.rows) |->
                                 [c \in Range(feats) |-> t.rows[i][c]]]],
        y_train |-> Transform(enc, y),
        encoder |-> enc]

\* X_train.shape[1] and y_train.shape[1]
InputShape(X) == Len(X.columns)
NumColumns(y) == Len(y[1])

\* Values of the cells of a column: a class for 'target', 0 or 1 otherwise.
CellValues(c) == IF c = "target" THEN Classes ELSE 0..1

\* The rows a table with columns `cols` can hold.
RowsOver(cols) ==
    {r \in [Range(cols) -> 0..3] : \A c \in Range(cols) : r[c] \in CellValues(c)}

\* Column layouts of data/processed/train_processed.csv, with and without
\* the 'target' column.
ColumnChoices ==
    {<<"target">>, <<"f1", "target">>, <<"target", "f1">>, <<"f1">>}

\* Every training table of at most MaxRows rows.
Tables ==
    UNION {[columns : {cols},
            rows : UNION {[1..n -> RowsOver(cols)] : n \in 0..MaxRows}] :
           cols \in ColumnChoices}

\* A well-formed table: three samples of two classes, one feature.
DefaultTable ==
    [columns |-> <<"f1", "target">>,
     rows |-> <<[c \in {"f1", "target"} |-> IF c = "target" THEN 2 ELSE 0],
                [c \in {"f1", "target"} |-> IF c = "target" THEN 1 ELSE 1],
                [c \in {"f1", "target"} |-> IF c = "target" THEN 2 ELSE 1]>>]

\* Contents of metrics/training.json: no file, a file open(..., "w") created
\* or truncated and nothing wrote to, part of the JSON text, or the JSON object
\* json.dump wrote.
NoFile == [state |-> "absent", json |-> EmptyMap]
EmptyFile == [state |-> "empty", json |-> EmptyMap]
\* A proper, non-empty prefix of the JSON text: no mapping can be read from it.
PartialFile == [state |-> "partial", json |-> EmptyMap]
JsonFile(metrics) == [state |-> "json", json |-> metrics]

NoTable == [columns |-> <<>>, rows |-> <<>>]
NoPrepared ==
    [X_train |-> NoTable, y_train |-> <<>>, encoder |-> [categories |-> <<>>]]
NoModel ==
    [input_shape |-> 0, num_classes |-> 0, hidden |-> <<0, 0>>,
     dropout |-> 0, learning_rate |-> 0]
NoCreateArgs == [input_shape |-> 0, num_classes |-> 0, params |-> EmptyMap]

\* ------------------------------------------------------------ fit, history
MetricNames == {"loss", "accuracy", "val_loss", "val_accuracy"}

\* The logs of one epoch: an improving epoch and a non-improving one.
EpochLogs ==
    {[m \in MetricNames |->
        CASE m = "loss" -> 2 [] m = "accuracy" -> 2
          [] m = "val_loss" -> 2 [] m = "val_accuracy" -> 2],
     [m \in MetricNames |->
        CASE m = "loss" -> 1 [] m = "accuracy" -> 3
          [] m = "val_loss" -> 3 [] m = "val_accuracy" -> 1]}

\* History.on_epoch_end: history.setdefault(k, []).append(v) for each log.
AppendLogs(h, logs) ==
    [m \in DOMAIN h \cup DOMAIN logs |->
        IF m \notin DOMAIN logs THEN h[m]
        ELSE IF m \in DOMAIN h THEN Append(h[m], logs[m]) ELSE <<logs[m]>>]

\* Number of epochs a history records.
EpochsRun(h) == IF DOMAIN h = {} THEN 0 ELSE Len(h["val_loss"])

\* EarlyStopping state: the best val_loss seen and the epochs since.
NoEarlyStopping == [has_best |-> FALSE, best |-> 0, wait |-> 0, stop |-> FALSE]

\* EarlyStopping.on_epoch_end(epoch, logs) with monitor val_loss, mode min.
EarlyStoppingStep(es, epoch, logs) ==
    LET current == logs["val_loss"]
        improved == ~es.has_best \/ current < es.best
        wait == es.wait + 1
    IN IF improved
       THEN [has_best |-> TRUE, best |-> current, wait |-> 0, stop |-> FALSE]
       ELSE [es EXCEPT !.wait = wait,
                       !.stop = (wait >= Patience /\ epoch > 1)]

\* history.history[metric][0]: the first epoch's value instead of the last
FirstEpochMetrics(h) == [m \in DOMAIN h |-> h[m][1]]
\* {metric: float(history.history[metric][-1]) for metric in history.history}
\* float() keeps the number; values are modelled as fixed-point integers.
FinalMetrics(h) == [m \in DOMAIN h |-> h[m][Len(h[m])]]

\* ------------------------------------------------------------------ state
VARIABLES
    csvFile,           \* contents of data/processed/train_processed.csv
    paramsYaml,        \* contents of params.yaml
    pc,                \* position of the invocation in main / train_model
    inv,               \* number of the current invocation of main()
    given_environ,     \* the environment the invocation's process was started with
    environ,           \* os.environ of the invocation's process
    library,           \* tracker library: what its build does (see Libraries)
    runs,              \* tracker: every run, in start order (run id = index)
    active_experiment, \* mlflow: experiment id set by set_experiment
    active_run_stack,  \* mlflow: the stack of active runs of the process
    autolog,           \* mlflow.keras.autolog() is on
    train_data,        \* main: the loaded table
    params,            \* the dict object main passes to train_model
    loaded,            \* the mapping as load_params returned it
    parent_run_id,     \* train_model: parent_run_id (0: unbound)
    extra_args,        \* train_model: extra_args
    run_id,            \* the training run of the invocation (0: none)
    prepared,          \* X_train, y_train, encoder
    createArgs,        \* the arguments create_model was called with
    model,             \* the model create_model returned
    fitting,           \* fit: the EarlyStopping callback's state
    history,           \* history.history
    disk,              \* paths written to disk
    metricsFile,       \* contents of metrics/training.json
    trace              \* the calls the invocation made, in order

vars ==
    <<csvFile, paramsYaml, pc, inv, given_environ, environ, library, runs,
      active_experiment, active_run_stack,
      autolog, train_data, params, loaded, parent_run_id, extra_args, run_id,
      prepared, createArgs, model, fitting, history, disk, metricsFile, trace>>

trackerVars == <<runs, active_experiment, active_run_stack, autolog, library>>
dataVars == <<train_data, prepared, createArgs, model, fitting, history>>
argVars == <<parent_run_id, extra_args, run_id>>
fileVars == <<csvFile, paramsYaml, disk, metricsFile>>

DvcNames == {NoneStr, "exp-a", ""}
\* MLFLOW_EXPERIMENT_ID as the process is started: unset, or naming an
\* experiment other than the one set_experiment makes active.
ExperimentIds == {NoneStr, DefaultExperimentId}
Environments == [DVC_EXP_NAME : DvcNames, MLFLOW_EXPERIMENT_ID : ExperimentIds]

\* start_run(**{}): the defaults of the keyword arguments.
NoExtraArgs == [parent_run_id |-> 0, run_name |-> NoneStr, nested |-> FALSE]

\* mlflow.active_run(): the top of the stack (0: none).
ActiveRun(stack) == IF stack = <<>> THEN 0 ELSE stack[Len(stack)]

Event(op, arg, ok) ==
    [op |-> op, arg |-> arg, ok |-> ok, active |-> ActiveRun(active_run_stack)]

\* The process state of a fresh invocation.
FreshProcess(env) ==
    /\ pc = "load_data"
    /\ given_environ = env
    /\ environ = env
    /\ active_experiment = NoneStr
    /\ active_run_stack = <<>>
    /\ autolog = FALSE
    /\ train_data = NoTable
    /\ params = EmptyMap
    /\ loaded = EmptyMap
    /\ parent_run_id = 0
    /\ extra_args = NoExtraArgs
    /\ run_id = 0
    /\ prepared = NoPrepared
    /\ createArgs = NoCreateArgs
    /\ model = NoModel
    /\ fitting = NoEarlyStopping
    /\ history = EmptyMap
    /\ trace = <<>>

\* Builds of the tracking library: whether keras autologging logs the
\* in-memory model when fit ends.
Libraries == [autolog_logs_model : BOOLEAN]
\* mlflow.keras.autolog() as line 138 calls it, with the default log_models:
\* the model is logged.
DefaultLibraries == {l \in Libraries : l.autolog_logs_model}

\* A fresh tracker and working directory holding the given input files.
Fresh(table, doc, env, libs) ==
    /\ inv = 1
    /\ library \in libs
    /\ runs = <<>>
    /\ disk = {}
    /\ metricsFile = NoFile
    /\ csvFile = table
    /\ paramsYaml = doc
    /\ FreshProcess(env)

\* Invocations in every environment, on well-formed input files.
Init ==
    \E env \in Environments :
        Fresh(DefaultTable, DefaultDoc, env, DefaultLibraries)

NoEnvironment == [DVC_EXP_NAME |-> NoneStr, MLFLOW_EXPERIMENT_ID |-> NoneStr]

\* One invocation on every training table and on every params.yaml.
InitInputs ==
    \/ \E t \in Tables : Fresh(t, DefaultDoc, NoEnvironment, Libraries)
    \/ \E d \in ParamDocs : Fresh(DefaultTable, d, NoEnvironment, Libraries)

\* ---------------------------------------------------------------- tracker
\* Name the tracker generates for a run started without run_name (None or
\* the empty string).
GeneratedName == "<generated>"

\* A run as mlflow.start_run creates it in experiment `exp`.
NewRun(exp, parent, name) ==
    [experiment_id |-> exp,
     dvc_exp |-> NoneStr,
     parent_run_id |-> parent,
     run_name |-> IF name \in {NoneStr, ""} THEN GeneratedName ELSE name,
     status |-> "RUNNING",
     params |-> EmptyMap,
     artifacts |-> <<>>,
     invocation |-> inv]

\* The tag stored in lower case, which the filter dvc_exp = 'True' misses
StrTrueLower == "true"
\* str(True), the value mlflow.set_tag stores for the tag.
StrTrue == "True"

\* mlflow.search_runs(experiment_ids=[exp], filter_string="tags.dvc_exp =
\* 'True'", order_by=["start_time DESC"]): the run ids, latest start first.
RECURSIVE Descending(_)
Descending(S) ==
    IF S = {} THEN <<>>
    ELSE LET m == CHOOSE x \in S : \A y \in S : y <= x
         IN <<m>> \o Descending(S \ {m})

Tagged(rs, exp) ==
    {i \in 1..Len(rs) : rs[i].experiment_id = exp /\ rs[i].dvc_exp = "True"}

search_runs(rs, exp) == Descending(Tagged(rs, exp))

\* is_experiment = bool(os.getenv("DVC_EXP_NAME")): an empty name is unset
IsExperimentTruthy(env) == env.DVC_EXP_NAME \notin {NoneStr, ""}
\* is_experiment = os.getenv("DVC_EXP_NAME") is not None
IsExperiment(env) == env.DVC_EXP_NAME # NoneStr

\* mlflow.end_run(status): the run is terminated and leaves the stack.
EndRun(rs, id, status) == [rs EXCEPT ![id].status = status]
Pop(stack) == SubSeq(stack, 1, Len(stack) - 1)

\* mlflow.log_artifact(path) on the active run.
LogArtifact(rs, id, path) ==
    [rs EXCEPT ![id].artifacts = Append(@, path)]

\* ---------------------------------------------------------------- actions
\* An exception outside any run context ends the process.
Raise(op, arg) ==
    /\ pc' = "raised"
    /\ trace' = Append(trace, Event(op, arg, FALSE))

\* An exception inside a run started without `with`: nothing ends the run.
RaiseInRunNoExit(op, arg) ==
    /\ pc' = "raised"
    /\ trace' = Append(trace, Event(op, arg, FALSE))
    /\ UNCHANGED <<runs, active_run_stack>>

\* The name under which the trace records the __exit__ of the with block the
\* invocation is in: the parent's block or the training run's.
ExitOp == IF pc \in {"set_tag", "parent_run_id"} THEN "end_parent" ELSE "end_run"

\* The active-run stack after an end_run that raised: end_run takes the run off
\* the stack before it asks the tracker to terminate it, so the run has left
\* the stack and is still RUNNING in the tracker.
FailedExit(stack) == Pop(stack)

\* An exception inside `with mlflow.start_run(...)`: __exit__ ends the active
\* run as FAILED, then the exception leaves train_model and main. When the
\* end_run of __exit__ raises as well, the run stays RUNNING in the tracker and
\* that exception leaves train_model instead.
RaiseInRun(op, arg) ==
    /\ pc' = "raised"
    /\ \/ /\ trace' = Append(trace, Event(op, arg, FALSE))
          /\ runs' = EndRun(runs, ActiveRun(active_run_stack), "FAILED")
          /\ active_run_stack' = Pop(active_run_stack)
       \/ /\ trace' = Append(Append(trace, Event(op, arg, FALSE)),
                             Event(ExitOp, "", FALSE))
          /\ runs' = runs
          /\ active_run_stack' = FailedExit(active_run_stack)

Done(op, arg, next) ==
    /\ pc' = next
    /\ trace' = Append(trace, Event(op, arg, TRUE))

\* main: train_data = load_data()
LoadData ==
    /\ pc = "load_data"
    /\ \/ /\ train_data' = csvFile
          /\ Done("load_data", "", "load_params")
       \/ /\ Raise("load_data", "")
          /\ UNCHANGED train_data
    /\ UNCHANGED <<inv, given_environ, environ, trackerVars, params, loaded, argVars,
                   prepared, createArgs, model, fitting, history, fileVars>>

\* main: params = load_params()
LoadParams ==
    /\ pc = "load_params"
    /\ \/ IF LoadParamsRaises(paramsYaml)
          THEN Raise("load_params", "") /\ UNCHANGED <<params, loaded>>
          ELSE /\ params' = load_params(paramsYaml)
               /\ loaded' = load_params(paramsYaml)
               /\ Done("load_params", "", "set_experiment")
       \/ Raise("load_params", "") /\ UNCHANGED <<params, loaded>>
    /\ UNCHANGED <<inv, given_environ, environ, trackerVars, dataVars, argVars, fileVars>>

\* train_model: mlflow.set_experiment("ml_classification"): the experiment
\* becomes the active one and its id is written to the process's
\* MLFLOW_EXPERIMENT_ID.
SetExperiment ==
    /\ pc = "set_experiment"
    /\ \/ /\ active_experiment' = MlClassificationId
          /\ environ' = [environ EXCEPT
                           !.MLFLOW_EXPERIMENT_ID = MlClassificationId]
          /\ Done("set_experiment", MlClassification, "autolog")
       \/ /\ Raise("set_experiment", MlClassification)
          /\ UNCHANGED <<active_experiment, environ>>
    /\ UNCHANGED <<inv, given_environ, library, runs, active_run_stack, autolog, params,
                   loaded, dataVars, argVars, fileVars>>

\* train_model: mlflow.keras.autolog(); is_experiment; extra_args = {}
Autolog ==
    /\ pc = "autolog"
    /\ \/ /\ autolog' = TRUE
          /\ extra_args' = NoExtraArgs
          /\ Done("autolog", "",
                  IF IsExperiment(environ) THEN "search_runs" ELSE "start_run")
       \/ /\ Raise("autolog", "")
          /\ UNCHANGED <<autolog, extra_args>>
    /\ UNCHANGED <<inv, given_environ, environ, library, runs, active_experiment,
                   active_run_stack, params, loaded, dataVars, parent_run_id,
                   run_id, fileVars>>

\* extra_args of a DVC experiment
ExperimentArgs(parent, env) ==
    [parent_run_id |-> parent, run_name |-> env.DVC_EXP_NAME, nested |-> TRUE]

\* train_model: runs = mlflow.search_runs(...); the branch on runs.empty
SearchRuns ==
    /\ pc = "search_runs"
    /\ \/ LET found == search_runs(runs, environ.MLFLOW_EXPERIMENT_ID)
          IN IF found = <<>>
             THEN /\ Done("search_runs", environ.MLFLOW_EXPERIMENT_ID,
                          "start_parent")
                  /\ UNCHANGED <<parent_run_id, extra_args>>
             ELSE /\ parent_run_id' = found[1]
                  /\ extra_args' = ExperimentArgs(found[1], environ)
                  /\ Done("search_runs", environ.MLFLOW_EXPERIMENT_ID,
                          "start_run")
       \/ /\ Raise("search_runs", environ.MLFLOW_EXPERIMENT_ID)
          /\ UNCHANGED <<parent_run_id, extra_args>>
    /\ UNCHANGED <<inv, given_environ, environ, trackerVars, params, loaded, dataVars,
                   run_id, fileVars>>

\* train_model: with mlflow.start_run() as parent_run
StartParent ==
    /\ pc = "start_parent"
    /\ \/ /\ runs' = Append(runs, NewRun(active_experiment,
                                         ActiveRun(active_run_stack), NoneStr))
          /\ active_run_stack' = Append(active_run_stack, Len(runs) + 1)
          /\ Done("start_parent", "", "set_tag")
       \/ /\ Raise("start_parent", "")
          /\ UNCHANGED <<runs, active_run_stack>>
    /\ UNCHANGED <<inv, given_environ, environ, library, active_experiment, autolog,
                   params, loaded, dataVars, argVars, fileVars>>

\* train_model: mlflow.set_tag("dvc_exp", True)
SetTag ==
    /\ pc = "set_tag"
    /\ \/ /\ runs' = [runs EXCEPT
                        ![ActiveRun(active_run_stack)].dvc_exp = StrTrue]
          /\ Done("set_tag", "dvc_exp", "parent_run_id")
          /\ UNCHANGED active_run_stack
       \/ RaiseInRun("set_tag", "dvc_exp")
    /\ UNCHANGED <<inv, given_environ, environ, library, active_experiment, autolog,
                   params, loaded, dataVars, argVars, fileVars>>

\* __exit__ of the parent's with block
ExitParent(rs, stack) == EndRun(rs, ActiveRun(stack), "FINISHED")

\* The parent started by a plain mlflow.start_run(), without `with`: it
\* stays active when the training run is started.
EndParentStaysActive ==
    /\ pc = "parent_run_id"
    /\ parent_run_id' = ActiveRun(active_run_stack)
    /\ extra_args' = ExperimentArgs(ActiveRun(active_run_stack), environ)
    /\ Done("end_parent", "", "start_run")
    /\ UNCHANGED <<inv, given_environ, environ, trackerVars, params, loaded, dataVars, run_id,
                   fileVars>>

\* train_model: parent_run_id = parent_run.info.run_id; the with block ends
\* the parent run; run_name and extra_args are set. When the end_run of
\* __exit__ raises, the parent stays RUNNING and train_model is left at the
\* with statement.
EndParent ==
    /\ pc = "parent_run_id"
    /\ parent_run_id' = ActiveRun(active_run_stack)
    /\ \/ /\ runs' = ExitParent(runs, active_run_stack)
          /\ active_run_stack' = Pop(active_run_stack)
          /\ extra_args' = ExperimentArgs(ActiveRun(active_run_stack), environ)
          /\ Done("end_parent", "", "start_run")
       \/ /\ Raise("end_parent", "")
          /\ active_run_stack' = FailedExit(active_run_stack)
          /\ UNCHANGED <<runs, extra_args>>
    /\ UNCHANGED <<inv, given_environ, environ, library, active_experiment, autolog,
                   params, loaded, dataVars, run_id, fileVars>>

\* train_model: with mlflow.start_run(**extra_args)
StartRun ==
    /\ pc = "start_run"
    /\ \/ /\ active_run_stack = <<>> \/ extra_args.nested
          /\ runs' = Append(runs,
                NewRun(active_experiment,
                       IF extra_args.parent_run_id # 0
                       THEN extra_args.parent_run_id
                       ELSE ActiveRun(active_run_stack),
                       extra_args.run_name))
          /\ active_run_stack' = Append(active_run_stack, Len(runs) + 1)
          /\ run_id' = Len(runs) + 1
          /\ Done("start_run", extra_args.run_name, "log_params")
       \/ /\ Raise("start_run", extra_args.run_name)
          /\ UNCHANGED <<runs, active_run_stack, run_id>>
    /\ UNCHANGED <<inv, given_environ, environ, library, active_experiment, autolog,
                   params, loaded, dataVars, parent_run_id, extra_args,
                   fileVars>>

inRunFrame == <<inv, given_environ, environ, library, active_experiment, autolog, argVars>>

\* train_model: mlflow.log_params(params)
LogParams ==
    /\ pc = "log_params"
    /\ \/ /\ runs' = [runs EXCEPT
                        ![ActiveRun(active_run_stack)].params = params]
          /\ Done("log_params", "", "set_random_seed")
          /\ UNCHANGED active_run_stack
       \/ RaiseInRun("log_params", "")
    /\ UNCHANGED <<inRunFrame, params, loaded, dataVars, fileVars>>

\* tf.keras.utils.set_random_seed(params.pop("random_seed", None)): a missing
\* seed is not an error.
SetRandomSeedDefault ==
    /\ pc = "set_random_seed"
    /\ params' = PopRandomSeed(params)
    /\ Done("set_random_seed", "", "log_imputer")
    /\ UNCHANGED <<runs, active_run_stack>>
    /\ UNCHANGED <<inRunFrame, loaded, dataVars, fileVars>>

\* train_model: tf.keras.utils.set_random_seed(params.pop("random_seed"))
SetRandomSeed ==
    /\ pc = "set_random_seed"
    /\ IF "random_seed" \in DOMAIN params
       THEN /\ params' = PopRandomSeed(params)
            /\ Done("set_random_seed", "", "log_imputer")
            /\ UNCHANGED <<runs, active_run_stack>>
       ELSE /\ RaiseInRun("set_random_seed", "")
            /\ UNCHANGED params
    /\ UNCHANGED <<inRunFrame, loaded, dataVars, fileVars>>

\* mlflow.log_artifact(path) inside the run, continuing at `next`; the call
\* raises when the local file is missing or the tracker refuses it.
LogArtifactStep(at, path, next) ==
    /\ pc = at
    /\ \/ /\ runs' = LogArtifact(runs, ActiveRun(active_run_stack), path)
          /\ Done("log_artifact", path, next)
          /\ UNCHANGED active_run_stack
       \/ RaiseInRun("log_artifact", path)
    /\ UNCHANGED <<inRunFrame, params, loaded, dataVars, fileVars>>

\* train_model: mlflow.log_artifact("artifacts/[features]_mean_imputer.joblib")
LogImputer == LogArtifactStep("log_imputer", ImputerPath, "log_scaler")

\* train_model: mlflow.log_artifact("artifacts/[features]_scaler.joblib")
LogScaler == LogArtifactStep("log_scaler", ScalerPath, "prepare_data")

\* train_model: X_train, y_train, encoder = prepare_data(train_data)
PrepareData ==
    /\ pc = "prepare_data"
    /\ IF PrepareDataRaises(train_data)
       THEN /\ RaiseInRun("prepare_data", "")
            /\ UNCHANGED prepared
       ELSE /\ prepared' = prepare_data(train_data)
            /\ Done("prepare_data", "", "create_model")
            /\ UNCHANGED <<runs, active_run_stack>>
    /\ UNCHANGED <<inRunFrame, params, loaded, train_data, createArgs, model,
                   fitting, history, fileVars>>

\* The arguments train_model passes to create_model.
CreateModelArgs(prep, p) ==
    [input_shape |-> InputShape(prep.X_train),
     num_classes |-> NumColumns(prep.y_train),
     params |-> p]

\* train_model: model = create_model(...); early_stopping = EarlyStopping(...)
CreateModel ==
    /\ pc = "create_model"
    /\ IF CreateModelKeys \subseteq DOMAIN params
       THEN LET args == CreateModelArgs(prepared, params)
            IN /\ createArgs' = args
               /\ model' = create_model(args.input_shape, args.num_classes,
                                        args.params)
               /\ fitting' = NoEarlyStopping
               /\ Done("create_model", "", "fit")
               /\ UNCHANGED <<runs, active_run_stack>>
       ELSE /\ RaiseInRun("create_model", "")
            /\ UNCHANGED <<createArgs, model, fitting>>
    /\ UNCHANGED <<inRunFrame, params, loaded, train_data, prepared, history,
                   fileVars>>

\* train_model: model.fit(..., epochs=params["epochs"],
\* batch_size=params["batch_size"], ...): the arguments are evaluated.
FitStart ==
    /\ pc = "fit"
    /\ IF FitKeys \subseteq DOMAIN params
       THEN /\ history' = EmptyMap
            /\ pc' = "fit_epoch"
            /\ UNCHANGED <<runs, active_run_stack, trace>>
       ELSE /\ RaiseInRun("fit", "")
            /\ UNCHANGED history
    /\ UNCHANGED <<inRunFrame, params, loaded, train_data, prepared,
                   createArgs, model, fitting, fileVars>>

\* Whether fit goes on to another epoch.
FitContinues(h, es, p) == EpochsRun(h) < p["epochs"] /\ ~es.stop

\* model.fit: one epoch; History and EarlyStopping see its logs.
FitEpoch ==
    /\ pc = "fit_epoch"
    /\ FitContinues(history, fitting, params)
    /\ \/ \E logs \in EpochLogs :
            /\ history' = AppendLogs(history, logs)
            /\ fitting' = EarlyStoppingStep(fitting, EpochsRun(history) + 1,
                                            logs)
            /\ UNCHANGED <<pc, trace, runs, active_run_stack>>
       \/ /\ RaiseInRun("fit", "")
          /\ UNCHANGED <<history, fitting>>
    /\ UNCHANGED <<inRunFrame, params, loaded, train_data, prepared,
                   createArgs, model, fileVars>>

\* model.fit returns, continuing at `next`, or raises after its last epoch
\* (or with no epoch to run); keras autologging may log the
\* in-memory model to the active run when training ends (whether it does
\* depends on the library).
FitReturns(next) ==
    /\ pc = "fit_epoch"
    /\ ~FitContinues(history, fitting, params)
    /\ \/ /\ runs' = IF autolog /\ library.autolog_logs_model
                      THEN LogArtifact(runs, ActiveRun(active_run_stack),
                                       AutologModelArtifact)
                      ELSE runs
          /\ Done("fit", "", next)
          /\ UNCHANGED active_run_stack
       \/ RaiseInRun("fit", "")
    /\ UNCHANGED <<inRunFrame, params, loaded, dataVars, fileVars>>

\* train_model without the call of save_training_artifacts
FitEndSkipsSave == FitReturns("log_encoder")
\* train_model: history = model.fit(...), then save_training_artifacts
FitEnd == FitReturns("save_model")

\* save_training_artifacts: one file written at `path`, continuing at `next`.
\* A save that fails once the file is open leaves the (partial) file behind.
SaveStep(at, path, next) ==
    /\ pc = at
    /\ \/ /\ disk' = disk \cup {path}
          /\ Done("save", path, next)
          /\ UNCHANGED <<runs, active_run_stack>>
       \/ /\ RaiseInRun("save", path)
          /\ \E opened \in BOOLEAN :
                disk' = IF opened THEN disk \cup {path} ELSE disk
    /\ UNCHANGED <<inRunFrame, params, loaded, dataVars, csvFile, paramsYaml,
                   metricsFile>>

\* save_training_artifacts: model.save(model_path)
SaveModel == SaveStep("save_model", ModelPath, "save_encoder")

\* joblib.dump(encoder, model_path): the encoder written over the model file
SaveEncoderToModelPath == SaveStep("save_encoder", ModelPath, "log_encoder")
\* save_training_artifacts: joblib.dump(encoder, encoder_path)
SaveEncoder == SaveStep("save_encoder", EncoderPath, "log_encoder")

\* train_model: mlflow.log_artifact("artifacts/[target]_one_hot_encoder.joblib")
LogEncoder == LogArtifactStep("log_encoder", EncoderPath, "write_metrics")

\* train_model: metrics = {...}; json.dump(metrics, f) to metrics/training.json.
\* open(metrics_path, "w") may fail, leaving the directory as it was; once it
\* succeeded the file exists and is truncated, and a write that fails then
\* leaves it empty, with part of the JSON text, or (when only the close fails)
\* with all of it.
WriteMetrics ==
    /\ pc = "write_metrics"
    /\ \/ /\ metricsFile' = JsonFile(FinalMetrics(history))
          /\ disk' = disk \cup {MetricsPath}
          /\ Done("write_metrics", MetricsPath, "exit_run")
          /\ UNCHANGED <<runs, active_run_stack>>
       \/ /\ RaiseInRun("write_metrics", MetricsPath)
          /\ UNCHANGED <<disk, metricsFile>>
       \/ /\ RaiseInRun("write_metrics", MetricsPath)
          /\ disk' = disk \cup {MetricsPath}
          /\ metricsFile' \in {EmptyFile, PartialFile,
                                JsonFile(FinalMetrics(history))}
    /\ UNCHANGED <<inRunFrame, params, loaded, dataVars, csvFile, paramsYaml>>

\* __exit__ of the training run's with block, without an exception
ExitTraining(rs, stack) == EndRun(rs, ActiveRun(stack), "FINISHED")

\* The with block of the training run ends; train_model returns and main logs
\* "Model training completed". When the end_run of __exit__ raises, the run
\* stays RUNNING and the exception leaves train_model and main.
ExitRun ==
    /\ pc = "exit_run"
    /\ \/ /\ runs' = ExitTraining(runs, active_run_stack)
          /\ active_run_stack' = Pop(active_run_stack)
          /\ Done("end_run", "", "done")
       \/ /\ Raise("end_run", "")
          /\ runs' = runs
          /\ active_run_stack' = FailedExit(active_run_stack)
    /\ UNCHANGED <<inRunFrame, params, loaded, dataVars, fileVars>>

\* The next invocation of main(), in a new process with its own environment,
\* against the same tracker and the same working directory.
NewInvocation ==
    /\ pc \in {"done", "raised"}
    /\ inv < MaxInvocations
    /\ inv' = inv + 1
    /\ pc' = "load_data"
    /\ environ' \in Environments
    /\ given_environ' = environ'
    /\ active_experiment' = NoneStr
    /\ active_run_stack' = <<>>
    /\ autolog' = FALSE
    /\ train_data' = NoTable
    /\ params' = EmptyMap
    /\ loaded' = EmptyMap
    /\ parent_run_id' = 0
    /\ extra_args' = NoExtraArgs
    /\ run_id' = 0
    /\ prepared' = NoPrepared
    /\ createArgs' = NoCreateArgs
    /\ model' = NoModel
    /\ fitting' = NoEarlyStopping
    /\ history' = EmptyMap
    /\ trace' = <<>>
    /\ UNCHANGED <<library, runs, fileVars>>

Next ==
    \/ LoadData \/ LoadParams \/ SetExperiment \/ Autolog \/ SearchRuns
    \/ StartParent \/ SetTag \/ EndParent \/ StartRun \/ LogParams
    \/ SetRandomSeed \/ LogImputer \/ LogScaler \/ PrepareData \/ CreateModel
    \/ FitStart \/ FitEpoch \/ FitEnd \/ SaveModel \/ SaveEncoder
    \/ LogEncoder \/ WriteMetrics \/ ExitRun \/ NewInvocation

\* One invocation of main().
Invocation ==
    \/ LoadData \/ LoadParams \/ SetExperiment \/ Autolog \/ StartRun
    \/ LogParams \/ SetRandomSeed \/ LogImputer \/ LogScaler \/ PrepareData
    \/ CreateModel \/ FitStart \/ FitEpoch \/ FitEnd \/ SaveModel
    \/ SaveEncoder \/ LogEncoder \/ WriteMetrics \/ ExitRun

\* Sequences of invocations against one tracker.
Spec == Init /\ [][Next]_vars

\* One invocation over every input file.
SpecInputs == InitInputs /\ [][Invocation]_vars

\* ------------------------------------------------------------------ claims
\* Positions of the trace where call `op` with argument `arg` completed.
Completed(op, arg) ==
    {i \in 1..Len(trace) : trace[i].op = op /\ trace[i].arg = arg /\ trace[i].ok}
\* Positions where it was made, completed or not.
Called(op, arg) ==
    {i \in 1..Len(trace) : trace[i].op = op /\ trace[i].arg = arg}
CalledOp(op) == {i \in 1..Len(trace) : trace[i].op = op}

\* The pipeline steps of main, in the order of the system overview.
PipelineSteps ==
    <<[op |-> "load_data", arg |-> ""],
      [op |-> "load_params", arg |-> ""],
      [op |-> "prepare_data", arg |-> ""],
      [op |-> "create_model", arg |-> ""],
      [op |-> "fit", arg |-> ""],
      [op |-> "save", arg |-> ModelPath],
      [op |-> "save", arg |-> EncoderPath],
      [op |-> "write_metrics", arg |-> MetricsPath]>>

StepCalls(k) == Called(PipelineSteps[k].op, PipelineSteps[k].arg)
StepDone(k) == Completed(PipelineSteps[k].op, PipelineSteps[k].arg)

\* C1: in every invocation each pipeline step (load table, load
\* hyperparameters, prepare data, build model, fit, save model, save encoder,
\* write metrics) is made at most once, and a step is made only after the
\* step before it in that order has completed.
C1_PipelineOrder ==
    \A k \in 1..Len(PipelineSteps) :
        /\ Cardinality(StepCalls(k)) <= 1
        /\ \A i \in StepCalls(k) :
              k > 1 => \E j \in StepDone(k - 1) : j < i

C1_Witness ==
    /\ pc = "done"
    /\ EpochsRun(history) = 2
    /\ \A k \in 1..Len(PipelineSteps) : StepDone(k) # {}

\* The gate as the claim states it: the process was started with both
\* variables set.
GateBoth ==
    /\ given_environ.DVC_EXP_NAME # NoneStr
    /\ given_environ.MLFLOW_EXPERIMENT_ID # NoneStr
\* The gate the code computes: DVC_EXP_NAME alone.
GateDvc == environ.DVC_EXP_NAME # NoneStr

\* The training run was started nested, under a parent, named by DVC_EXP_NAME.
StartedNested ==
    /\ extra_args.nested
    /\ extra_args.parent_run_id # 0
    /\ extra_args.run_name = environ.DVC_EXP_NAME
    /\ runs[run_id].parent_run_id = extra_args.parent_run_id
    /\ Completed("start_run", environ.DVC_EXP_NAME) # {}
\* The training run was started with no parent, no run name and no nesting.
StartedPlain ==
    /\ extra_args = NoExtraArgs
    /\ runs[run_id].parent_run_id = 0
    /\ runs[run_id].run_name = GeneratedName
    /\ Completed("start_run", NoneStr) # {}

GatedBy(gate) ==
    /\ run_id # 0 => IF gate THEN StartedNested ELSE StartedPlain
    /\ ~gate => CalledOp("search_runs") = {} /\ CalledOp("start_parent") = {}

\* C2 as stated: the nested-run behaviour is gated by DVC_EXP_NAME and
\* MLFLOW_EXPERIMENT_ID together: nested, parented and named exactly when
\* both are set, and otherwise no search, no parent and a plain run.
C2_GatedByBothVariables == GatedBy(GateBoth)

\* C2 amended: the behaviour is gated by DVC_EXP_NAME alone (set, even to the
\* empty string): the training run is nested under parent_run_id with
\* run_name DVC_EXP_NAME exactly when DVC_EXP_NAME is set, and when it is
\* unset no run search is made, no parent is created and the run is plain.
C2_GatedByDvcExpName == GatedBy(GateDvc)

C2_Witness ==
    /\ run_id # 0
    /\ environ.DVC_EXP_NAME = ""
    /\ given_environ.MLFLOW_EXPERIMENT_ID = NoneStr
    /\ StartedNested

\* Calls train_model makes inside the with block of the training run.
InRunOps == {"log_params", "log_artifact", "fit", "save", "write_metrics"}

\* Runs the current invocation started.
OwnRuns == {i \in 1..Len(runs) : runs[i].invocation = inv}

\* Every call train_model makes inside the training block is made while the
\* training run is the active run.
InRunOpsInsideRun ==
    \A i \in 1..Len(trace) :
        trace[i].op \in InRunOps =>
            trace[i].active # 0 /\ trace[i].active = run_id

\* Run `i` is still active: on the process's stack or RUNNING in the tracker.
LeftActive(i) == i \in Range(active_run_stack) \/ runs[i].status = "RUNNING"

\* The end_run of the with block of run `i` raised.
ExitFailed(i) ==
    \E k \in CalledOp("end_run") \cup CalledOp("end_parent") :
        ~trace[k].ok /\ trace[k].active = i

\* C3 as stated: parameter logging, artifact logging, fitting, artifact saving
\* and metrics writing are made only while the training run is the active
\* run, and once the invocation has ended, normally or by a failure, no run it
\* started is active any more.
C3_RunBracket ==
    /\ InRunOpsInsideRun
    /\ pc \in {"done", "raised"} => \A i \in OwnRuns : ~LeftActive(i)

\* C3 amended: the calls of the training block are made only while the
\* training run is active; once train_model has returned normally no run the
\* invocation started is active, and once it has ended by a failure a run the
\* invocation started is left active only when the end_run of its own with
\* block raised.
C3_RunBracketUnlessExitFails ==
    /\ InRunOpsInsideRun
    /\ Range(active_run_stack) \subseteq OwnRuns
    /\ pc = "done" => \A i \in OwnRuns : ~LeftActive(i)
    /\ pc = "raised" => \A i \in OwnRuns : LeftActive(i) => ExitFailed(i)

C3_Witness ==
    /\ pc = "raised"
    /\ run_id # 0
    /\ runs[run_id].status = "FAILED"
    /\ Called("save", EncoderPath) # {}
    /\ Cardinality(OwnRuns) = 2

\* C4: a failed step is the last step the invocation makes (only the failing
\* exit of the with block it is in can follow it); a missing
\* 'train' key, hyperparameter or target column stops the invocation at the
\* step that needs it; metrics/training.json is opened for writing only after
\* fit, both saves and the encoder logging succeeded (and holds the metrics
\* whenever the write completed), and models/model.keras is written only
\* after fit succeeded.
C4_FailuresPropagate ==
    /\ \A i \in 1..Len(trace) :
          ~trace[i].ok =>
              /\ pc = "raised"
              /\ \A j \in (i + 1)..Len(trace) :
                    /\ j = i + 1
                    /\ trace[j].op \in {"end_run", "end_parent"}
                    /\ ~trace[j].ok
    /\ LoadParamsRaises(paramsYaml) => CalledOp("set_experiment") = {}
    /\ "random_seed" \notin DOMAIN loaded =>
          CalledOp("log_artifact") = {} /\ CalledOp("prepare_data") = {}
    /\ PrepareDataRaises(csvFile) => CalledOp("create_model") = {}
    /\ ~(CreateModelKeys \subseteq DOMAIN loaded) => CalledOp("fit") = {}
    /\ ~(FitKeys \subseteq DOMAIN loaded) =>
          Completed("fit", "") = {} /\ CalledOp("save") = {}
    /\ Called("write_metrics", MetricsPath) # {} =>
          /\ Completed("fit", "") # {}
          /\ Completed("save", ModelPath) # {}
          /\ Completed("save", EncoderPath) # {}
          /\ Completed("log_artifact", EncoderPath) # {}
    /\ Called("save", ModelPath) # {} => Completed("fit", "") # {}
    /\ MetricsPath \in disk <=> metricsFile.state # "absent"
    /\ MetricsPath \in disk => Called("write_metrics", MetricsPath) # {}
    /\ Completed("write_metrics", MetricsPath) # {} =>
          metricsFile.state = "json"
    /\ ModelPath \in disk => Called("save", ModelPath) # {}

C4_Witness ==
    /\ pc = "raised"
    /\ "random_seed" \notin DOMAIN loaded
    /\ Completed("log_params", "") # {}
    /\ Called("set_random_seed", "") # {}

\* Positions at which the tracker received a copy of the trained model: a
\* log_artifact of the model file, or autologging during fit.
ModelLogged ==
    Completed("log_artifact", ModelPath)
    \cup (IF run_id # 0
             /\ AutologModelArtifact \in Range(runs[run_id].artifacts)
          THEN Completed("fit", "") ELSE {})

WrittenThenLogged(path, logged) ==
    /\ path \in disk
    /\ \E i \in Completed("save", path) : \E j \in logged : i < j
    /\ \A j \in logged : \E i \in Completed("save", path) : i < j

\* C5 as stated: after a successful invocation the model and the encoder are
\* both on disk and both logged to the training run, each logged only after
\* it was written.
C5_BothWrittenThenLogged ==
    pc = "done" =>
        /\ WrittenThenLogged(ModelPath, ModelLogged)
        /\ WrittenThenLogged(EncoderPath, Completed("log_artifact", EncoderPath))

\* C5 amended: after a successful invocation the model and the encoder are
\* both on disk, the encoder file is an artifact of the training run, logged
\* after it was written, and the model file is not logged: log_artifact is
\* called for the two preprocessor files and the encoder only, and a copy of
\* the model reaches the tracker only if autologging logs it during fit,
\* before the file is written.
C5_EncoderWrittenThenLogged ==
    pc = "done" =>
        /\ Completed("save", ModelPath) # {} /\ ModelPath \in disk
        /\ WrittenThenLogged(EncoderPath, Completed("log_artifact", EncoderPath))
        /\ EncoderPath \in Range(runs[run_id].artifacts)
        /\ ModelPath \notin Range(runs[run_id].artifacts)
        /\ {trace[i].arg : i \in CalledOp("log_artifact")}
              = {ImputerPath, ScalerPath, EncoderPath}
        /\ \A j \in ModelLogged : \A i \in Completed("save", ModelPath) : j < i

C5_Witness ==
    /\ pc = "done"
    /\ AutologModelArtifact \in Range(runs[run_id].artifacts)
    /\ EncoderPath \in Range(runs[run_id].artifacts)
    /\ {ModelPath, EncoderPath} \subseteq disk

\* C6: the mapping create_model receives has exactly the keys and values of
\* the mapping load_params returned, and train_model leaves the caller's
\* mapping as it was loaded.
C6_ParamsVerbatim ==
    /\ createArgs # NoCreateArgs => createArgs.params = loaded
    /\ CalledOp("load_params") # {} /\ pc # "raised" => params = loaded

\* The target column of the loaded table and its distinct values.
TargetOf(t) == [i \in 1..Len(t.rows) |-> t.rows[i]["target"]]
DistinctTargets(t) == {t.rows[i]["target"] : i \in 1..Len(t.rows)}
\* The column of a class: its rank among the distinct target values.
ClassColumn(t, v) == Cardinality({w \in DistinctTargets(t) : w <= v})

\* C7: prepare_data is called once and fits the encoder on the target column:
\* the encoded target has one row per sample and one column per distinct
\* target value, each row has exactly one set bit, at the column of the
\* sample's class; the feature table has every column of the input except
\* 'target'; and create_model is given the number of distinct target values
\* as its output width.
C7_OneHotTarget ==
    /\ Cardinality(CalledOp("prepare_data")) <= 1
    /\ Completed("prepare_data", "") # {} =>
          LET t == train_data
              y == prepared.y_train
              X == prepared.X_train
          IN /\ Len(y) = Len(t.rows)
             /\ Len(prepared.encoder.categories)
                   = Cardinality(DistinctTargets(t))
             /\ \A i \in 1..Len(y) :
                   /\ Len(y[i]) = Cardinality(DistinctTargets(t))
                   /\ \A j \in 1..Len(y[i]) :
                         y[i][j] = IF j = ClassColumn(t, TargetOf(t)[i])
                                   THEN 1 ELSE 0
                   /\ prepared.encoder.categories[ClassColumn(t, TargetOf(t)[i])]
                         = TargetOf(t)[i]
             /\ Range(X.columns) = Range(t.columns) \ {"target"}
             /\ Len(X.columns) = Len(t.columns) - 1
             /\ Len(X.rows) = Len(t.rows)
             /\ \A i \in 1..Len(X.rows) : \A c \in Range(X.columns) :
                   X.rows[i][c] = t.rows[i][c]
             /\ Completed("create_model", "") # {} =>
                   /\ createArgs.num_classes = Cardinality(DistinctTargets(t))
                   /\ model.num_classes = Cardinality(DistinctTargets(t))
                   /\ createArgs.input_shape = Len(t.columns) - 1

C7_Witness ==
    /\ Completed("create_model", "") # {}
    /\ TargetOf(train_data) = <<3, 1, 3>>
    /\ train_data.columns = <<"target", "f1">>
    /\ prepared.y_train = <<<<0, 1>>, <<1, 0>>, <<0, 1>>>>
    /\ createArgs.num_classes = 2

\* C8: metrics/training.json maps exactly the metric names of the history,
\* each to the last element of its series, also when early stopping ended
\* the training before the configured epoch count.
C8_FinalEpochMetrics ==
    metricsFile.state = "json" =>
        /\ Called("write_metrics", MetricsPath) # {}
        /\ DOMAIN metricsFile.json = DOMAIN history
        /\ \A m \in DOMAIN history :
              /\ Len(history[m]) = EpochsRun(history)
              /\ metricsFile.json[m] = history[m][EpochsRun(history)]
        /\ EpochsRun(history) <= loaded["epochs"]
        /\ EpochsRun(history) > 0 => DOMAIN metricsFile.json = MetricNames
        /\ EpochsRun(history) < loaded["epochs"] =>
              EpochsRun(history) > Patience

C8_Witness ==
    /\ pc = "done"
    /\ EpochsRun(history) < loaded["epochs"]
    /\ history["val_loss"][1] = 2
    /\ metricsFile.json["val_loss"] = 3
    /\ metricsFile.json["accuracy"] = 3

\* Runs carrying the tag dvc_exp, and the training runs of DVC experiments.
TaggedRuns == {i \in 1..Len(runs) : runs[i].dvc_exp = "True"}
ChildRuns == {i \in 1..Len(runs) : runs[i].parent_run_id # 0}

\* C9, the part about one invocation: a parent is created only after a search
\* of the experiment named by MLFLOW_EXPERIMENT_ID that found no tagged run,
\* and otherwise the latest tagged run of that experiment is the parent.
ParentOnlyWhenSearchEmpty ==
    /\ CalledOp("start_parent") # {} =>
          /\ Completed("search_runs", environ.MLFLOW_EXPERIMENT_ID) # {}
          /\ \A i \in Tagged(runs, environ.MLFLOW_EXPERIMENT_ID) :
                runs[i].invocation = inv
    /\ run_id # 0 /\ GateDvc /\ CalledOp("start_parent") = {} =>
          /\ runs[run_id].parent_run_id \in
                Tagged(runs, environ.MLFLOW_EXPERIMENT_ID)
          /\ \A i \in Tagged(runs, environ.MLFLOW_EXPERIMENT_ID) :
                i <= runs[run_id].parent_run_id

\* C9: over a sequence of invocations against one tracker, an invocation with
\* DVC_EXP_NAME set creates a parent run only when its search returned nothing
\* and otherwise uses the most recently started tagged run; hence at most one
\* run tagged dvc_exp ever exists and every training run of a DVC experiment
\* is a child of that one run.
C9_SingleParentRun ==
    /\ ParentOnlyWhenSearchEmpty
    /\ Cardinality(TaggedRuns) <= 1
    /\ \A i \in ChildRuns : runs[i].parent_run_id \in TaggedRuns
    /\ run_id # 0 /\ GateDvc => run_id \in ChildRuns

\* The second DVC experiment, started with MLFLOW_EXPERIMENT_ID naming another
\* experiment, finds the parent the first one created and runs under it.
C9_Witness ==
    /\ pc = "done"
    /\ inv = 2
    /\ given_environ.MLFLOW_EXPERIMENT_ID = DefaultExperimentId
    /\ CalledOp("start_parent") = {}
    /\ Cardinality(TaggedRuns) = 1
    /\ Cardinality(ChildRuns) = 2
    /\ \A i \in TaggedRuns : runs[i].invocation = 1

\* C10: at most one run is active at any point of an invocation; a parent
\* the invocation creates is tagged dvc_exp and ended before the training run
\* is started, which is attached to it through parent_run_id only.
C10_OneActiveRun ==
    /\ Len(active_run_stack) <= 1
    /\ \A i \in CalledOp("start_run") :
          /\ trace[i].active = 0
          /\ \A j \in Completed("start_parent", "") :
                \E k \in Completed("end_parent", "") : j < k /\ k < i
    /\ run_id # 0 /\ Completed("start_parent", "") # {} =>
          /\ runs[parent_run_id].dvc_exp = "True"
          /\ runs[parent_run_id].status = "FINISHED"
          /\ runs[parent_run_id].invocation = inv
          /\ runs[run_id].parent_run_id = parent_run_id
          /\ parent_run_id # run_id

C10_Witness ==
    /\ pc = "fit_epoch"
    /\ Completed("start_parent", "") # {}
    /\ active_run_stack = <<run_id>>
    /\ runs[run_id].status = "RUNNING"
    /\ runs[parent_run_id].status = "FINISHED"

====
